---------------------------- MODULE Spec2Model ----------------------------
(***************************************************************************)
(* Model of src/sinks/loki/event.rs: the Loki sink's batch construction    *)
(* (LokiBatch::from), its two encodings (LokiBatchEncoder::encode_input)   *)
(* and the allocated-size estimators (ByteSizeOf).                         *)
(*                                                                         *)
(* A String or a Bytes value is a sequence of byte codes (44 is ',',       *)
(* 92 is '\', 97 is 'a', 255 is a byte that no UTF-8 text contains).       *)
(* A HashMap<String, _> is a function whose domain is a set of strings.    *)
(* An Option<String> is a sequence of length 0 (None) or 1 (Some).         *)
(***************************************************************************)
EXTENDS Integers, Sequences, FiniteSets, TLC

VARIABLES
    input,            \* the Vec<LokiRecord> handed to encode_input
    encoding,         \* LokiBatchEncoder.0: "Json" or "Protobuf"
    pc,               \* position of the caller / of encode_input
    alloc,            \* allocated_bytes() of every queued record
    count,            \* encode_input: let count = input.len()
    idx,              \* LokiBatch::from: position of the fold in events
    consumed,         \* the fold's items, as they are after being consumed
    placed,           \* the fold's `labels` key of every consumed item
    stream_by_labels, \* LokiBatch.stream_by_labels
    finalizers,       \* LokiBatch.finalizers
    wire,             \* the streams handed to the serializer, in HashMap order
    body,             \* encode_input: the serialized body
    reported,         \* the (count, bytes) write_all was called with
    ret               \* encode_input's io::Result<usize>

vars == <<input, encoding, pc, alloc, count, idx, consumed, placed,
          stream_by_labels, finalizers, wire, body, reported, ret>>

-----------------------------------------------------------------------------
(* Bounds of the model. *)

MaxLabels == 2
MaxLabelRecords == 2
MaxEventRecords == 3
MaxHandles == 2
MaxFinalRecords == 3
MaxEncodeRecords == 2
MaxSizeRecords == 2

-----------------------------------------------------------------------------
(* Generic helpers. *)

Range(s) == {s[i] : i \in DOMAIN s}

SeqsUpTo(S, n) == UNION {[1..k -> S] : k \in 0..n}

RECURSIVE Flatten(_)
Flatten(ss) == IF ss = <<>> THEN <<>> ELSE Head(ss) \o Flatten(Tail(ss))

RECURSIVE SumSeq(_)
SumSeq(ns) == IF ns = <<>> THEN 0 ELSE Head(ns) + SumSeq(Tail(ns))

CountIn(s, x) == Cardinality({i \in DOMAIN s : s[i] = x})

\* Ord for String: byte-wise lexicographic order.
RECURSIVE StrLess(_, _)
StrLess(s, t) ==
    IF t = <<>> THEN FALSE
    ELSE IF s = <<>> THEN TRUE
    ELSE IF Head(s) # Head(t) THEN Head(s) < Head(t)
    ELSE StrLess(Tail(s), Tail(t))

\* Ord for (String, String): by the key, then by the value.
PairLess(p, q) == StrLess(p[1], q[1]) \/ (p[1] = q[1] /\ StrLess(p[2], q[2]))

-----------------------------------------------------------------------------
(* LokiBatch::from: canonical ordering of a record's labels (line 86). *)

\* The position after the last element of the sorted s that is not greater
\* than x.
RECURSIVE InsertPair(_, _)
InsertPair(x, s) ==
    IF s = <<>> THEN <<x>>
    ELSE IF PairLess(x, Head(s)) THEN <<x>> \o s
    ELSE <<Head(s)>> \o InsertPair(x, Tail(s))

RECURSIVE SortedPairs(_)
SortedPairs(s) ==
    IF s = <<>> THEN <<>>
    ELSE InsertPair(s[Len(s)], SortedPairs(SubSeq(s, 1, Len(s) - 1)))

\* A fold that forgets to sort.
sort_labels_unsorted(labels) == labels

\* item.labels.sort()
sort_labels(labels) == SortedPairs(labels)

-----------------------------------------------------------------------------
(* LokiBatch::from: the canonical key (lines 91-107). *)

\* The commas of a key or a value are left as they are.
escape_char_no_comma(c) ==
    IF c = 92 THEN <<92, 92>> ELSE <<c>>

\* '\\' => "\\\\", ',' => "\\,", c => c
escape_char(c) ==
    IF c = 92 THEN <<92, 92>>
    ELSE IF c = 44 THEN <<92, 44>>
    ELSE <<c>>

\* The closure of .map(|s| ...): every character escaped, then a ','.
escaped(s) == Flatten([i \in DOMAIN s |-> escape_char(s[i])]) \o <<44>>

\* A key built from the labels' keys alone.
canonical_key_keys_only(labels) ==
    Flatten([i \in DOMAIN labels |-> escaped(labels[i][1])])

\* .flat_map(|(a, b)| [a, b]).map(escaped).collect()
canonical_key(labels) ==
    Flatten([i \in DOMAIN labels |->
                escaped(labels[i][1]) \o escaped(labels[i][2])])

-----------------------------------------------------------------------------
(* LokiBatch::from: the stream of a key (lines 108-121). *)

\* A map that keeps the first value inserted under a key.
collect_labels_first(labels) ==
    [k \in {labels[i][1] : i \in DOMAIN labels} |->
        LET first == CHOOSE i \in DOMAIN labels :
                        /\ labels[i][1] = k
                        /\ \A j \in DOMAIN labels : labels[j][1] = k => i <= j
        IN labels[first][2]]

\* item.labels.into_iter().collect(): every pair inserted in the order of
\* the list, a later insert replacing the value of an equal key.
collect_labels(labels) ==
    [k \in {labels[i][1] : i \in DOMAIN labels} |->
        LET last == CHOOSE i \in DOMAIN labels :
                        /\ labels[i][1] = k
                        /\ \A j \in DOMAIN labels : labels[j][1] = k => j <= i
        IN labels[last][2]]

\* if !contains_key(&labels) { insert(labels.clone(), LokiStream {...}) }
ensure_stream(streams, labels, item) ==
    IF labels \in DOMAIN streams THEN streams
    ELSE streams @@
         (labels :> [stream |-> collect_labels(item.labels), values |-> <<>>])

\* An event is kept only when it opens its stream.
push_event_first_only(streams, labels, event) ==
    IF streams[labels].values = <<>>
    THEN [streams EXCEPT ![labels].values = Append(@, event)]
    ELSE streams

\* get_mut(&labels).expect(..).values.push(item.event)
push_event(streams, labels, event) ==
    [streams EXCEPT ![labels].values = Append(@, event)]

-----------------------------------------------------------------------------
(* LokiBatch::from: the order of a stream's events (lines 124-126). *)

\* Insertion before the first element that is not smaller: equal
\* timestamps end up reversed.
RECURSIVE InsertEventBefore(_, _)
InsertEventBefore(e, s) ==
    IF s = <<>> THEN <<e>>
    ELSE IF e.timestamp <= Head(s).timestamp THEN <<e>> \o s
    ELSE <<Head(s)>> \o InsertEventBefore(e, Tail(s))

RECURSIVE UnstableSorted(_)
UnstableSorted(s) ==
    IF s = <<>> THEN <<>>
    ELSE InsertEventBefore(s[Len(s)], UnstableSorted(SubSeq(s, 1, Len(s) - 1)))

sort_by_key_unstable(values) == UnstableSorted(values)

\* Insertion after the last element whose timestamp is not greater.
RECURSIVE InsertEvent(_, _)
InsertEvent(e, s) ==
    IF s = <<>> THEN <<e>>
    ELSE IF e.timestamp < Head(s).timestamp THEN <<e>> \o s
    ELSE <<Head(s)>> \o InsertEvent(e, Tail(s))

\* The elements are inserted from the first to the last, each after the
\* earlier elements of an equal timestamp: the sort is stable.
RECURSIVE StableSorted(_)
StableSorted(s) ==
    IF s = <<>> THEN <<>>
    ELSE InsertEvent(s[Len(s)], StableSorted(SubSeq(s, 1, Len(s) - 1)))

\* stream.values.sort_by_key(|e| e.timestamp): a stable sort.
sort_by_key(values) == StableSorted(values)

-----------------------------------------------------------------------------
(* Finalizers (lines 85 and 206-210). An EventFinalizers value is the      *)
(* sequence of the handles it holds.                                       *)

\* The handles are copied and the record keeps its own.
take_finalizers_copy(item) ==
    [finalizers |-> item.finalizers, item |-> item]

\* std::mem::take(&mut self.finalizers): the record's handles are returned
\* and the record is left with the default, empty EventFinalizers.
take_finalizers(item) ==
    [finalizers |-> item.finalizers,
     item       |-> [item EXCEPT !.finalizers = <<>>]]

\* EventFinalizers::merge: the union of the two collections; a handle that
\* both hold is held once.
merge(self, other) ==
    self \o SelectSeq(other, LAMBDA h : h \notin Range(self))

-----------------------------------------------------------------------------
(* ByteSizeOf (lines 139-143, 183-191, 217-224). *)

\* ByteSizeOf for String and for Bytes: the length in bytes.
string_allocated_bytes(s) == Len(s)

\* ByteSizeOf for i64: no heap allocation.
i64_allocated_bytes(n) == 0

PartitionKey_allocated_bytes(self) ==
    IF self.tenant_id = <<>> THEN 0
    ELSE string_allocated_bytes(self.tenant_id[1])

LokiEvent_allocated_bytes(self) ==
    i64_allocated_bytes(self.timestamp) + string_allocated_bytes(self.event)

LokiRecord_allocated_bytes(self) ==
    PartitionKey_allocated_bytes(self.partition)
    + SumSeq([i \in DOMAIN self.labels |->
                string_allocated_bytes(self.labels[i][1])
                + string_allocated_bytes(self.labels[i][2])])
    + LokiEvent_allocated_bytes(self.event)

-----------------------------------------------------------------------------
(* The content of the two encodings (lines 32-62 and 160-173). A text is   *)
(* a sequence of code points.                                              *)

RECURSIVE Digits(_)
Digits(n) ==
    IF n < 10 THEN <<48 + n>> ELSE Digits(n \div 10) \o <<48 + (n % 10)>>

\* i64::to_string: the decimal digits, after a '-' when negative.
to_string(n) == IF n < 0 THEN <<45>> \o Digits(0 - n) ELSE Digits(n)

\* String::from_utf8_lossy on bytes that are ASCII or 0xF5..0xFF: an ASCII
\* byte is its own code point; each of the others, which no UTF-8 sequence
\* contains, becomes U+FFFD.
from_utf8_lossy(bytes) ==
    [i \in DOMAIN bytes |-> IF bytes[i] < 128 THEN bytes[i] ELSE 65533]

\* An entry without its tags.
proto_entry_no_tags(event) ==
    <<event.timestamp, from_utf8_lossy(event.event), <<>>, event.attachment>>

\* loki_logproto::util::Entry(timestamp, lossy text, tags, attachment)
proto_entry(event) ==
    <<event.timestamp, from_utf8_lossy(event.event), event.tags,
      event.attachment>>

\* loki_logproto::util::Stream(labels, entries)
proto_stream(stream) ==
    <<stream.stream, [i \in DOMAIN stream.values |-> proto_entry(stream.values[i])]>>

\* Serialize for LokiEvent: a sequence of 4 elements.
LokiEvent_serialize(self) ==
    <<to_string(self.timestamp), from_utf8_lossy(self.event), self.tags,
      self.attachment>>

\* #[derive(Serialize)] for LokiStream: the fields stream and values.
LokiStream_serialize(self) ==
    [stream |-> self.stream,
     values |-> [i \in DOMAIN self.values |-> LokiEvent_serialize(self.values[i])]]

\* HashMap::into_values: the values, in an order the map chooses.
IntoValuesOrders(map) ==
    {o \in [1..Cardinality(DOMAIN map) -> DOMAIN map] :
        \A i, j \in DOMAIN o : i # j => o[i] # o[j]}

-----------------------------------------------------------------------------
(* The bytes of the two encodings (lines 35-36 and 60). *)

RECURSIVE Join(_, _)
Join(parts, sep) ==
    IF parts = <<>> THEN <<>>
    ELSE IF Len(parts) = 1 THEN parts[1]
    ELSE parts[1] \o sep \o Join(Tail(parts), sep)

RECURSIVE SetToSeq(_)
SetToSeq(S) ==
    IF S = {} THEN <<>>
    ELSE LET x == CHOOSE y \in S : TRUE IN <<x>> \o SetToSeq(S \ {x})

\* The entries of a map as a list of pairs, by ascending key.
Entries(map) == SortedPairs(SetToSeq({<<k, map[k]>> : k \in DOMAIN map}))

HexDigit(d) == IF d < 10 THEN 48 + d ELSE 87 + d

\* UTF-8 of a code point of the basic plane.
Utf8(c) ==
    IF c < 128 THEN <<c>>
    ELSE IF c < 2048 THEN <<192 + (c \div 64), 128 + (c % 64)>>
    ELSE <<224 + (c \div 4096), 128 + ((c \div 64) % 64), 128 + (c % 64)>>

\* serde_json's string escaping: '"' and '\' after a '\', the control
\* characters as \b \t \n \f \r or \u00XX, everything else as UTF-8.
JsonChar(c) ==
    IF c = 34 \/ c = 92 THEN <<92, c>>
    ELSE IF c = 8 THEN <<92, 98>>
    ELSE IF c = 9 THEN <<92, 116>>
    ELSE IF c = 10 THEN <<92, 110>>
    ELSE IF c = 12 THEN <<92, 102>>
    ELSE IF c = 13 THEN <<92, 114>>
    ELSE IF c < 32 THEN <<92, 117, 48, 48, HexDigit(c \div 16), HexDigit(c % 16)>>
    ELSE Utf8(c)

JsonString(s) ==
    <<34>> \o Flatten([i \in DOMAIN s |-> JsonChar(s[i])]) \o <<34>>

JsonArray(items) == <<91>> \o Join(items, <<44>>) \o <<93>>

\* A map of strings to strings as a JSON object.
JsonMap(map) ==
    LET es == Entries(map)
    IN <<123>>
       \o Join([i \in DOMAIN es |->
                  JsonString(es[i][1]) \o <<58>> \o JsonString(es[i][2])],
               <<44>>)
       \o <<125>>

\* One element of "values": ["<timestamp>","<text>",[tags],{attachment}]
JsonEvent(v) ==
    JsonArray(<<JsonString(v[1]), JsonString(v[2]),
                JsonArray([i \in DOMAIN v[3] |-> JsonString(v[3][i])]),
                JsonMap(v[4])>>)

\* {"stream":{...},"values":[...]}
JsonStream(st) ==
    <<123>> \o JsonString(<<115, 116, 114, 101, 97, 109>>) \o <<58>>
    \o JsonMap(st.stream) \o <<44>>
    \o JsonString(<<118, 97, 108, 117, 101, 115>>) \o <<58>>
    \o JsonArray([i \in DOMAIN st.values |-> JsonEvent(st.values[i])])
    \o <<125>>

\* serde_json::to_vec(&json!({ "streams": streams }))
json_to_vec(streams) ==
    <<123>> \o JsonString(<<115, 116, 114, 101, 97, 109, 115>>) \o <<58>>
    \o JsonArray([i \in DOMAIN streams |-> JsonStream(streams[i])])
    \o <<125>>

\* A length-prefixed field.
Prefixed(bytes) == <<Len(bytes)>> \o bytes

PbText(s) == Prefixed(Flatten([i \in DOMAIN s |-> Utf8(s[i])]))

PbMap(map) ==
    LET es == Entries(map)
    IN Prefixed(Flatten([i \in DOMAIN es |-> PbText(es[i][1]) \o PbText(es[i][2])]))

PbEntry(e) ==
    Prefixed(PbText(to_string(e[1])) \o PbText(e[2])
             \o Prefixed(Flatten([i \in DOMAIN e[3] |-> PbText(e[3][i])]))
             \o PbMap(e[4]))

\* loki_logproto::util::Batch::encode: a length-prefixed binary payload of
\* the streams (label list, entries).
batch_encode(batch) ==
    Flatten([i \in DOMAIN batch |->
               Prefixed(PbMap(batch[i][1])
                        \o Flatten([j \in DOMAIN batch[i][2] |->
                                      PbEntry(batch[i][2][j])]))])

\* let count = input.len()
encode_count_streams(events) ==
    Cardinality({canonical_key(sort_labels(events[i].labels)) : i \in DOMAIN events})

encode_count(events) == Len(events)

\* .map(|()| body.len()): the count is returned in place of the length.
written_len_count(bytes, n) == n

written_len(bytes, n) == Len(bytes)

\* write_all(writer, count, &body): what the sink is handed.
write_all(n_events_pending, buf) ==
    [called |-> TRUE, count |-> n_events_pending, len |-> Len(buf)]

-----------------------------------------------------------------------------
(* The inputs. A shape is a record without its handles' identities; the    *)
(* record at position i of an input owns handles that no other record of   *)
(* the input owns.                                                         *)

\* ("", ","), (",", "") and (",", "\"): a key that repeats with two values,
\* two keys, and the characters the canonical key escapes.
LabelPairs == {<< <<>>, <<44>> >>, << <<44>>, <<>> >>, << <<44>>, <<92>> >>}
LabelLists == SeqsUpTo(LabelPairs, MaxLabels)

A == <<97>>
NoMap == <<>>
PlainEvent == [timestamp |-> 0, event |-> A, tags |-> <<>>, attachment |-> NoMap]
TwoLabelLists == {<<>>, << <<A, A>> >>}

Shape(tenant, labels, event, handles) ==
    [tenant_id |-> tenant, labels |-> labels, event |-> event, handles |-> handles]

LabelShapes == {Shape(<<>>, l, PlainEvent, 1) : l \in LabelLists}

EventShapes ==
    {Shape(<<>>, l, [timestamp |-> t, event |-> p, tags |-> <<>>, attachment |-> NoMap], 1) :
        l \in TwoLabelLists, t \in {1, 2}, p \in {<<97>>, <<98>>}}

FinalShapes ==
    {Shape(<<>>, l, PlainEvent, h) : l \in TwoLabelLists, h \in 0..MaxHandles}

EncodeShapes ==
    {Shape(<<>>, l, [timestamp |-> t, event |-> p, tags |-> g, attachment |-> m], 1) :
        l \in TwoLabelLists, t \in {-1, 12}, p \in {<<97>>, <<97, 255>>},
        g \in {<<>>, << <<92>> >>}, m \in {NoMap, (A :> <<34>>)}}

SizeShapes ==
    {Shape(o, l, [timestamp |-> 0, event |-> p, tags |-> g, attachment |-> m], 1) :
        o \in {<<>>, <<A>>}, l \in TwoLabelLists, p \in {<<>>, A},
        g \in {<<>>, <<A>>}, m \in {NoMap, (A :> A)}}

OwnHandles(i, n) == [j \in 1..n |-> (i - 1) * (MaxHandles + 1) + j]

Records(shapes) ==
    [i \in DOMAIN shapes |->
        [partition  |-> [tenant_id |-> shapes[i].tenant_id],
         labels     |-> shapes[i].labels,
         event      |-> shapes[i].event,
         finalizers |-> OwnHandles(i, shapes[i].handles)]]

\* The records and the encoder are given. start is "queued" when the
\* batching policy holds the records for encode_input, and "fold" when
\* LokiBatch::from is called on them directly.
InitWith(shapeSet, maxRecords, start) ==
    /\ \E shapes \in SeqsUpTo(shapeSet, maxRecords) : input = Records(shapes)
    /\ encoding \in {"Json", "Protobuf"}
    /\ pc = start
    /\ alloc = <<>>
    /\ count = 0
    /\ idx = 1
    /\ consumed = <<>>
    /\ placed = <<>>
    /\ stream_by_labels = <<>>
    /\ finalizers = <<>>
    /\ wire = <<>>
    /\ body = <<>>
    /\ reported = [called |-> FALSE, count |-> 0, len |-> 0]
    /\ ret = [state |-> "pending", value |-> 0]

InitLabels == InitWith(LabelShapes, MaxLabelRecords, "fold")
InitEvents == InitWith(EventShapes, MaxEventRecords, "queued")
InitFinal == InitWith(FinalShapes, MaxFinalRecords, "queued")
InitEncode == InitWith(EncodeShapes, MaxEncodeRecords, "queued")
InitSize == InitWith(SizeShapes, MaxSizeRecords, "queued")

-----------------------------------------------------------------------------
(* The operations. *)

\* The batching policy asks every queued record for its allocated size.
Estimate ==
    /\ pc = "queued"
    /\ alloc' = [i \in DOMAIN input |-> LokiRecord_allocated_bytes(input[i])]
    /\ pc' = "ready"
    /\ UNCHANGED <<input, encoding, count, idx, consumed, placed,
                   stream_by_labels, finalizers, wire, body, reported, ret>>

\* encode_input: the count is taken and LokiBatch::from starts with
\* Self::default().
Begin ==
    /\ pc = "ready"
    /\ count' = encode_count(input)
    /\ idx' = 1
    /\ stream_by_labels' = <<>>
    /\ finalizers' = <<>>
    /\ pc' = "fold"
    /\ UNCHANGED <<input, encoding, alloc, consumed, placed, wire, body,
                   reported, ret>>

\* One call of the fold's closure, on the record at idx.
FoldStep ==
    /\ pc = "fold"
    /\ idx <= Len(input)
    /\ LET taken  == take_finalizers(input[idx])
           item   == [taken.item EXCEPT !.labels = sort_labels(@)]
           labels == canonical_key(item.labels)
           res    == ensure_stream(stream_by_labels, labels, item)
       IN /\ finalizers' = merge(finalizers, taken.finalizers)
          /\ stream_by_labels' = push_event(res, labels, item.event)
          /\ consumed' = Append(consumed, item)
          /\ placed' = Append(placed, labels)
    /\ idx' = idx + 1
    /\ UNCHANGED <<input, encoding, pc, alloc, count, wire, body, reported, ret>>

\* The fold is over: every stream's events are sorted by timestamp.
SortStreams ==
    /\ pc = "fold"
    /\ idx > Len(input)
    /\ stream_by_labels' =
          [k \in DOMAIN stream_by_labels |->
              [stream_by_labels[k] EXCEPT !.values = sort_by_key(@)]]
    /\ pc' = "encode"
    /\ UNCHANGED <<input, encoding, alloc, count, idx, consumed, placed,
                   finalizers, wire, body, reported, ret>>

EncodeJson ==
    /\ pc = "encode"
    /\ encoding = "Json"
    /\ \E order \in IntoValuesOrders(stream_by_labels) :
          /\ wire' = [i \in DOMAIN order |->
                        LokiStream_serialize(stream_by_labels[order[i]])]
          /\ body' = json_to_vec(wire')
    /\ pc' = "write"
    /\ UNCHANGED <<input, encoding, alloc, count, idx, consumed, placed,
                   stream_by_labels, finalizers, reported, ret>>

EncodeProtobuf ==
    /\ pc = "encode"
    /\ encoding = "Protobuf"
    /\ \E order \in IntoValuesOrders(stream_by_labels) :
          /\ wire' = [i \in DOMAIN order |->
                        proto_stream(stream_by_labels[order[i]])]
          /\ body' = batch_encode(wire')
    /\ pc' = "write"
    /\ UNCHANGED <<input, encoding, alloc, count, idx, consumed, placed,
                   stream_by_labels, finalizers, reported, ret>>

\* write_all succeeds: Ok(body.len()).
WriteOk ==
    /\ pc = "write"
    /\ reported' = write_all(count, body)
    /\ ret' = [state |-> "ok", value |-> written_len(body, count)]
    /\ pc' = "done"
    /\ UNCHANGED <<input, encoding, alloc, count, idx, consumed, placed,
                   stream_by_labels, finalizers, wire, body>>

\* The sink fails: the io::Error is returned.
WriteErr ==
    /\ pc = "write"
    /\ reported' = write_all(count, body)
    /\ ret' = [state |-> "err", value |-> 0]
    /\ pc' = "done"
    /\ UNCHANGED <<input, encoding, alloc, count, idx, consumed, placed,
                   stream_by_labels, finalizers, wire, body>>

Next ==
    \/ Estimate
    \/ Begin
    \/ FoldStep
    \/ SortStreams
    \/ EncodeJson
    \/ EncodeProtobuf
    \/ WriteOk
    \/ WriteErr

\* LokiBatch::from alone.
NextFrom ==
    \/ FoldStep
    \/ SortStreams

\* LokiBatch::from on label lists that repeat pairs and keys, come in any
\* order and need escaping.
SpecLabels == InitLabels /\ [][NextFrom]_vars
SpecEvents == InitEvents /\ [][Next]_vars
SpecFinal == InitFinal /\ [][Next]_vars
SpecEncode == InitEncode /\ [][Next]_vars
SpecSize == InitSize /\ [][Next]_vars

-----------------------------------------------------------------------------
(* Vocabulary of the properties. *)

\* LokiBatch::from has returned.
Built == pc \in {"encode", "write", "done"}

\* The fold has started.
Folding == pc \in {"fold", "encode", "write", "done"}

LabelSet(labels) == Range(labels)

LabelMultiset(labels) == [p \in Range(labels) |-> CountIn(labels, p)]

NoDupKeys(labels) ==
    \A i, j \in DOMAIN labels : i # j => labels[i][1] # labels[j][1]

NoDupPairs(labels) ==
    \A i, j \in DOMAIN labels : i # j => labels[i] # labels[j]

MapPairs(map) == {<<k, map[k]>> : k \in DOMAIN map}

TotalEvents(streams) ==
    LET ks == SetToSeq(DOMAIN streams)
    IN SumSeq([i \in DOMAIN ks |-> Len(streams[ks[i]].values)])

\* The records the fold put under key k, by position in the input.
PlacedAt(k) == {i \in DOMAIN placed : placed[i] = k}

\* The tokens of a label list joined by commas with no escaping at all.
Unescaped(labels) ==
    Flatten([i \in DOMAIN labels |->
                labels[i][1] \o <<44>> \o labels[i][2] \o <<44>>])

-----------------------------------------------------------------------------
\* C1: each record's event is in exactly one stream, the one of its key:
\* a stream holds every event as many times as the records placed in it
\* carry it, and the built batch holds as many events as the input has
\* records (none when the input is empty).
C1_EveryRecordInOneStream ==
    Folding =>
        /\ Len(placed) = idx - 1
        /\ \A i \in DOMAIN placed : placed[i] \in DOMAIN stream_by_labels
        /\ \A k \in DOMAIN stream_by_labels :
              /\ Len(stream_by_labels[k].values) = Cardinality(PlacedAt(k))
              /\ \A e \in Range(stream_by_labels[k].values)
                          \cup {input[i].event : i \in PlacedAt(k)} :
                    CountIn(stream_by_labels[k].values, e)
                        = Cardinality({i \in PlacedAt(k) : input[i].event = e})
        /\ Built => TotalEvents(stream_by_labels) = Len(input)

C1_Witness ==
    /\ pc = "done"
    /\ Len(input) = 3
    /\ Cardinality(DOMAIN stream_by_labels) = 2
    /\ \E i, j \in DOMAIN input :
          i # j /\ placed[i] = placed[j] /\ input[i].event = input[j].event

\* C2: two records whose label lists hold the same set of pairs, in any
\* order and without a repeated key, are placed in the same stream, and
\* that stream's label mapping is exactly that set of pairs.
C2_SameLabelSetSameStream ==
    Built =>
        \A i, j \in DOMAIN input :
            ( /\ LabelSet(input[i].labels) = LabelSet(input[j].labels)
              /\ NoDupKeys(input[i].labels)
              /\ NoDupKeys(input[j].labels) )
            => /\ placed[i] = placed[j]
               /\ input[i].event \in Range(stream_by_labels[placed[i]].values)
               /\ input[j].event \in Range(stream_by_labels[placed[i]].values)
               /\ MapPairs(stream_by_labels[placed[i]].stream)
                     = LabelSet(input[i].labels)

C2_Witness ==
    /\ Built
    /\ \E i, j \in DOMAIN input :
          /\ input[i].labels # input[j].labels
          /\ Len(input[i].labels) = 2
          /\ LabelSet(input[i].labels) = LabelSet(input[j].labels)
          /\ NoDupKeys(input[i].labels)
          /\ NoDupKeys(input[j].labels)
          /\ Cardinality(DOMAIN stream_by_labels) = 1

\* C3: two records whose label sets differ are placed in different
\* streams: their canonical keys differ, also when keys or values hold
\* commas or backslashes.
C3_DistinctLabelSetsDistinctStreams ==
    Built =>
        \A i, j \in DOMAIN input :
            LabelSet(input[i].labels) # LabelSet(input[j].labels)
            => /\ placed[i] # placed[j]
               /\ input[i].event \in Range(stream_by_labels[placed[i]].values)
               /\ input[j].event \in Range(stream_by_labels[placed[j]].values)

\* Two label sets that a join without escaping would not tell apart.
C3_Witness ==
    /\ Built
    /\ \E i, j \in DOMAIN input :
          /\ LabelSet(input[i].labels) # LabelSet(input[j].labels)
          /\ Unescaped(consumed[i].labels) = Unescaped(consumed[j].labels)
          /\ placed[i] # placed[j]
          /\ Cardinality(DOMAIN stream_by_labels) = 2

\* C4: in every stream of a built batch the timestamps never decrease, and
\* events of equal timestamps are in the order of their records in the
\* input: the stream's events are the events of the records placed in it,
\* taken in an order f that increases with (timestamp, input position).
C4_StreamsStablySorted ==
    Built =>
        \A k \in DOMAIN stream_by_labels :
            LET values == stream_by_labels[k].values
            IN \E f \in [DOMAIN values -> PlacedAt(k)] :
                  /\ \A p \in DOMAIN values : values[p] = input[f[p]].event
                  /\ \A p, q \in DOMAIN values :
                        p < q =>
                          /\ f[p] # f[q]
                          /\ values[p].timestamp <= values[q].timestamp
                          /\ values[p].timestamp = values[q].timestamp
                                => f[p] < f[q]

\* A stream whose records came out of order and where two different events
\* share a timestamp.
C4_Witness ==
    /\ pc = "done"
    /\ \E i, j, l \in DOMAIN input :
          /\ i < j /\ j < l
          /\ placed[i] = placed[j] /\ placed[j] = placed[l]
          /\ input[i].event.timestamp > input[j].event.timestamp
          /\ input[j].event.timestamp = input[l].event.timestamp
          /\ input[j].event # input[l].event

\* C5: in both formats the sink is handed a record count equal to the
\* number of input records, whatever the number of streams, and a
\* successful write returns the length in bytes of the serialized body.
C5_CountIsInputLength ==
    /\ Folding => count = Len(input)
    /\ reported.called =>
          /\ reported.count = Len(input)
          /\ reported.len = Len(body)
    /\ ret.state = "ok" => ret.value = Len(body) /\ reported.called

\* Two records grouped into one stream, written with success.
C5_Witness ==
    /\ pc = "done"
    /\ ret.state = "ok"
    /\ Len(input) = 2
    /\ Cardinality(DOMAIN stream_by_labels) = 1
    /\ reported.count = 2
    /\ ret.value > 2

HandlesOf(records) == UNION {Range(records[i].finalizers) : i \in DOMAIN records}

\* C6: the merged handle is the union of the handles of the records
\* consumed so far, each held exactly once, and every consumed record has
\* been left without handles.
C6_FinalizersMerged ==
    Folding =>
        /\ Len(consumed) = idx - 1
        /\ \A i \in DOMAIN consumed : consumed[i].finalizers = <<>>
        /\ Range(finalizers) = HandlesOf(SubSeq(input, 1, idx - 1))
        /\ \A h \in Range(finalizers) : CountIn(finalizers, h) = 1
        /\ Built => Range(finalizers) = HandlesOf(input)

\* Three records were consumed: one with two handles, one with one and
\* one with none.
C6_Witness ==
    /\ pc = "done"
    /\ Len(finalizers) = 3
    /\ \E i, j, l \in DOMAIN input :
          /\ Len(input[i].finalizers) = 2
          /\ Len(input[j].finalizers) = 1
          /\ Len(input[l].finalizers) = 0

\* The heap bytes of all the variable-length fields a record owns.
OwnedBytes(r) ==
    Len(r.event.event)
    + SumSeq([i \in DOMAIN r.event.tags |-> Len(r.event.tags[i])])
    + SumSeq([i \in DOMAIN Entries(r.event.attachment) |->
                Len(Entries(r.event.attachment)[i][1])
                + Len(Entries(r.event.attachment)[i][2])])
    + SumSeq([i \in DOMAIN r.labels |-> Len(r.labels[i][1]) + Len(r.labels[i][2])])
    + (IF r.partition.tenant_id = <<>> THEN 0 ELSE Len(r.partition.tenant_id[1]))

\* C7: a record's allocated_bytes is the sum of the heap bytes of its
\* payload, its tags, its attachment keys and values, its label keys and
\* values and its tenant; the timestamp adds nothing.
C7_AllocatedBytesOfAllFields ==
    pc # "queued" =>
        \A i \in DOMAIN input : alloc[i] = OwnedBytes(input[i])

\* C8 as stated: the batch has as many streams as the records' label lists
\* have distinct sets of pairs, also when a list repeats a pair or a key.
C8_StreamsPerLabelSet ==
    Built =>
        Cardinality(DOMAIN stream_by_labels)
            = Cardinality({LabelSet(input[i].labels) : i \in DOMAIN input})

\* C8 amended: the batch has as many streams as the records' label lists
\* have distinct multisets of pairs (a list that repeats a pair is another
\* stream than the list without the repetition); when no list repeats a
\* pair that is the number of distinct sets of pairs.
C8_StreamsPerLabelMultiset ==
    Built =>
        /\ Cardinality(DOMAIN stream_by_labels)
              = Cardinality({LabelMultiset(input[i].labels) : i \in DOMAIN input})
        /\ (\A i \in DOMAIN input : NoDupPairs(input[i].labels))
              => Cardinality(DOMAIN stream_by_labels)
                    = Cardinality({LabelSet(input[i].labels) : i \in DOMAIN input})

\* Two records of one label set in two streams: one of them repeats a pair.
C8_Witness ==
    /\ Built
    /\ \E i, j \in DOMAIN input :
          /\ LabelSet(input[i].labels) = LabelSet(input[j].labels)
          /\ ~NoDupPairs(input[i].labels)
          /\ NoDupPairs(input[j].labels)
          /\ placed[i] # placed[j]
          /\ Cardinality(DOMAIN stream_by_labels) = 2

\* The first record placed under the key of record i: the one the stream
\* was created from.
Creator(i) == CHOOSE c \in PlacedAt(placed[i]) : \A d \in PlacedAt(placed[i]) : c <= d

\* The positions of key k in a label list.
KeyAt(labels, k) == {p \in DOMAIN labels : labels[p][1] = k}

LastAt(labels, k) == CHOOSE p \in KeyAt(labels, k) : \A q \in KeyAt(labels, k) : q <= p

\* C9 as stated: under a key that a record's label list repeats, the stream
\* created from the record maps the key to the value of its last
\* occurrence in the list as it was given.
C9_LastInInputOrderWins ==
    Built =>
        \A i \in DOMAIN input :
            i = Creator(i) =>
                \A k \in {input[i].labels[p][1] : p \in DOMAIN input[i].labels} :
                    stream_by_labels[placed[i]].stream[k]
                        = input[i].labels[LastAt(input[i].labels, k)][2]

\* C9 amended: the stream maps the key to the value of its last occurrence
\* in the sorted list, which is the greatest, in byte order, of the values
\* the list gives the key.
C9_GreatestValueWins ==
    Built =>
        \A i \in DOMAIN input :
            i = Creator(i) =>
                \A k \in {input[i].labels[p][1] : p \in DOMAIN input[i].labels} :
                    LET v == stream_by_labels[placed[i]].stream[k]
                    IN /\ \E p \in KeyAt(input[i].labels, k) : input[i].labels[p][2] = v
                       /\ \A p \in KeyAt(input[i].labels, k) :
                             ~StrLess(v, input[i].labels[p][2])
                       /\ v = consumed[i].labels[LastAt(consumed[i].labels, k)][2]

\* A record that gives a key its greatest value first and a smaller one last.
C9_Witness ==
    /\ Built
    /\ \E i \in DOMAIN input :
          /\ i = Creator(i)
          /\ Len(input[i].labels) = 2
          /\ input[i].labels[1][1] = input[i].labels[2][1]
          /\ StrLess(input[i].labels[2][2], input[i].labels[1][2])
          /\ stream_by_labels[placed[i]].stream[input[i].labels[1][1]]
                = input[i].labels[1][2]

RECURSIVE ParseDigits(_, _)
ParseDigits(s, acc) ==
    IF s = <<>> THEN acc ELSE ParseDigits(Tail(s), 10 * acc + (Head(s) - 48))

\* The integer a decimal string denotes.
ParseInt(s) ==
    IF s # <<>> /\ Head(s) = 45 THEN 0 - ParseDigits(Tail(s), 0)
    ELSE ParseDigits(s, 0)

\* What a reader of the text format gets from a serialized stream.
JsonContent(js) ==
    [labels  |-> js.stream,
     entries |-> [i \in DOMAIN js.values |->
                     [timestamp  |-> ParseInt(js.values[i][1]),
                      line       |-> js.values[i][2],
                      tags       |-> js.values[i][3],
                      attachment |-> js.values[i][4]]]]

\* What a reader of the binary format gets from a Stream(labels, entries).
ProtoContent(ps) ==
    [labels  |-> ps[1],
     entries |-> [i \in DOMAIN ps[2] |->
                     [timestamp  |-> ps[2][i][1],
                      line       |-> ps[2][i][2],
                      tags       |-> ps[2][i][3],
                      attachment |-> ps[2][i][4]]]]

JsonSide ==
    {JsonContent(LokiStream_serialize(stream_by_labels[k])) : k \in DOMAIN stream_by_labels}

ProtoSide ==
    {ProtoContent(proto_stream(stream_by_labels[k])) : k \in DOMAIN stream_by_labels}

Wired ==
    {IF encoding = "Json" THEN JsonContent(wire[i]) ELSE ProtoContent(wire[i]) :
        i \in DOMAIN wire}

\* C10: the two branches serialize the same content: what the taken branch
\* handed to its serializer is, stream by stream, what the other branch
\* makes of the same batch: the same label mapping and the same entries in
\* the same order, each with the same timestamp (a decimal string in the
\* text format), lossy text, tags and attachment.
C10_SameContentInBothFormats ==
    pc \in {"write", "done"} =>
        /\ Len(wire) = Cardinality(DOMAIN stream_by_labels)
        /\ Wired = JsonSide
        /\ Wired = ProtoSide
        /\ \A s \in Wired :
              \A p, q \in DOMAIN s.entries :
                 p < q => s.entries[p].timestamp <= s.entries[q].timestamp
        /\ \A i \in DOMAIN wire :
              encoding = "Json" =>
                 \A p \in DOMAIN wire[i].values :
                    wire[i].values[p][1]
                        = to_string(ParseInt(wire[i].values[p][1]))

\* A text-format stream of two entries in timestamp order, one of a
\* negative timestamp, with a tag, an attachment and a replaced byte.
C10_Witness ==
    /\ pc = "done"
    /\ encoding = "Json"
    /\ \E i \in DOMAIN wire :
          /\ Len(wire[i].values) = 2
          /\ wire[i].values[1][1] = <<45, 49>>
          /\ wire[i].values[2][1] = <<49, 50>>
          /\ wire[i].values[1][2] = <<97, 65533>>
          /\ wire[i].values[1][3] # <<>>
          /\ DOMAIN wire[i].values[2][4] # {}

=============================================================================
